---- MODULE Spec2Model ----
(***************************************************************************)
(* Unit_testing.ipynb: the angle-distance function and its TestAngle suite *)
(* as the notebook develops them.  The state is the state of the kernel    *)
(* the notebook runs in: which definition the name angle_distance is bound *)
(* to, which test cases the class TestAngle holds, and what the last       *)
(* unittest.main() reported.  The code cells are executed top to bottom,   *)
(* one action per cell; once the last code cell has run, the final         *)
(* angle_distance is called with arbitrary integer arguments.              *)
(***************************************************************************)
EXTENDS Integers, FiniteSets, Sequences, TLC

\* ---------------------------------------------------------------- bounds
\* arguments of a call range over -MaxAngle .. MaxAngle
MaxAngle == 370
\* whole turns added to an argument: -MaxTurns .. MaxTurns
MaxTurns == 2
\* third angles and rotations: 2 * MaxProbe + 1 values spread over the range
MaxProbe == 12

Angles == (0 - MaxAngle) .. MaxAngle
Turns == (0 - MaxTurns) .. MaxTurns
Probes == { 61 * i : i \in (0 - MaxProbe) .. MaxProbe }

\* ------------------------------------------------------ Python built-ins
\* abs(x) on int
Abs_noop(x) == x
Abs(x) == IF x < 0 THEN 0 - x ELSE x

\* min(x, y) on int
Min_max(x, y) == IF y > x THEN y ELSE x
Min(x, y) == IF y < x THEN y ELSE x

\* x % n on int, n > 0: Python's remainder takes the sign of the divisor,
\* x - n * floor(x / n)
PyMod_trunc(x, n) == IF x < 0 THEN 0 - ((0 - x) % n) ELSE x % n
PyMod(x, n) == x - n * (x \div n)

\* ------------------------------------------- the four angle_distance defs
\* first definition: abs(b - a)
angle_distance1(a, b) == Abs(b - a)

\* second definition: abs(b - a) % 180
angle_distance2_mod360(a, b) == PyMod(Abs(b - a), 360)
angle_distance2(a, b) == PyMod(Abs(b - a), 180)

\* third definition: d = abs(b - a); min(360 - d, d)
angle_distance3_normalized(a, b) ==
    LET d == Abs(PyMod(b, 360) - PyMod(a, 360)) IN Min(360 - d, d)
angle_distance3(a, b) ==
    LET d == Abs(b - a) IN Min(360 - d, d)

\* final definition: d = abs((b % 360) - (a % 360)); min(360 - d, d)
angle_distance4_unnormalized(a, b) ==
    LET d == Abs(b - a) IN Min(360 - d, d)
angle_distance4_mod180(a, b) ==
    LET d == Abs(PyMod(b, 180) - PyMod(a, 180)) IN Min(180 - d, d)
angle_distance4(a, b) ==
    LET d == Abs(PyMod(b, 360) - PyMod(a, 360)) IN Min(360 - d, d)

\* ------------------------------------------------ the four TestAngle defs
test_small_angles == [name |-> "test_small_angles", a |-> 10, b |-> 90, expected |-> 80]
test_large_angles == [name |-> "test_large_angles", a |-> 0, b |-> 270, expected |-> 90]
test_wrapping_angles == [name |-> "test_wrapping_angles", a |-> 1, b |-> 359, expected |-> 2]
test_large_input_angles == [name |-> "test_large_input_angles", a |-> 720, b |-> 270, expected |-> 90]

TestAngle1 == {test_small_angles}
TestAngle2 == {test_small_angles, test_large_angles}
TestAngle3_dropped == {test_small_angles, test_wrapping_angles}
TestAngle3 == {test_small_angles, test_large_angles, test_wrapping_angles}
TestAngle4 == {test_small_angles, test_large_angles, test_wrapping_angles,
               test_large_input_angles}

\* number of non-empty code cells of the notebook
NumCells == 15

\* ------------------------------------------------------------------ state
VARIABLES
    cell,        \* number of code cells executed so far
    revision,    \* which definition the name angle_distance is bound to, 0 = none
    TestAngle,   \* the test cases of the class TestAngle now defined
    ran,         \* names of the tests the last unittest.main() ran
    failures,    \* names of the tests the last unittest.main() reported as failed
    calls        \* the last call of angle_distance made after the notebook: at most one record

vars == <<cell, revision, TestAngle, ran, failures, calls>>

\* a call of the name angle_distance as the kernel resolves it now
angle_distance(a, b) ==
    CASE revision = 1 -> angle_distance1(a, b)
      [] revision = 2 -> angle_distance2(a, b)
      [] revision = 3 -> angle_distance3(a, b)
      [] revision = 4 -> angle_distance4(a, b)

Init ==
    /\ cell = 0
    /\ revision = 0
    /\ TestAngle = {}
    /\ ran = {}
    /\ failures = {}
    /\ calls = {}

\* a cell holding "def angle_distance(a, b): ..." rebinds the name
DefAngleDistance(n, rev) ==
    /\ cell = n - 1
    /\ cell' = n
    /\ revision' = rev
    /\ UNCHANGED <<TestAngle, ran, failures, calls>>

\* a cell holding "class TestAngle(unittest.TestCase): ..." rebinds the class
DefTestAngle(n, suite) ==
    /\ cell = n - 1
    /\ cell' = n
    /\ TestAngle' = suite
    /\ UNCHANGED <<revision, ran, failures, calls>>

\* a cell holding unittest.main(...): every test of TestAngle calls the
\* angle_distance now bound and asserts the result equals the expected value
RunTests(n) ==
    /\ cell = n - 1
    /\ revision # 0
    /\ cell' = n
    /\ ran' = { t.name : t \in TestAngle }
    /\ failures' = { t.name : t \in { u \in TestAngle :
                                        angle_distance(u.a, u.b) # u.expected } }
    /\ UNCHANGED <<revision, TestAngle, calls>>

Cell01 == DefAngleDistance(1, 1)
Cell02 == DefTestAngle(2, TestAngle1)
Cell03 == RunTests(3)
Cell04 == DefTestAngle(4, TestAngle2)
Cell05 == RunTests(5)
Cell06 == DefAngleDistance(6, 2)
Cell07 == RunTests(7)
Cell08 == DefTestAngle(8, TestAngle3)
Cell09 == RunTests(9)
Cell10 == DefAngleDistance(10, 3)
Cell11 == RunTests(11)
Cell12 == DefTestAngle(12, TestAngle4)
Cell13 == RunTests(13)
Cell14 == DefAngleDistance(14, 4)
Cell15 == RunTests(15)

\* angle_distance(x, y) evaluated once the notebook has run; the function is
\* pure, so one recorded call stands for any of the calls a session makes
Call ==
    /\ cell = NumCells
    /\ calls = {}
    /\ \E x \in Angles, y \in Angles :
         calls' = {[a |-> x, b |-> y, result |-> angle_distance(x, y)]}
    /\ UNCHANGED <<cell, revision, TestAngle, ran, failures>>

Next ==
    \/ Cell01 \/ Cell02 \/ Cell03 \/ Cell04 \/ Cell05
    \/ Cell06 \/ Cell07 \/ Cell08 \/ Cell09 \/ Cell10
    \/ Cell11 \/ Cell12 \/ Cell13 \/ Cell14 \/ Cell15
    \/ Call

Spec == Init /\ [][Next]_vars

\* ----------------------------------------------------------------- claims

\* C1: every call of the final angle_distance, negative arguments and
\* arguments of 360 or more included, returns a value r with 0 <= r <= 180.
C1_Range ==
    \A c \in calls : 0 <= c.result /\ c.result <= 180

C1_Witness ==
    \E c \in calls : c.a < 0 /\ c.b >= 360 /\ c.result = 180

\* C2: the final angle_distance(a, b) is min(360 - d, d) with d the absolute
\* difference of a and b each reduced by the non-negative modulo 360 (stated
\* here through the remainder of natural numbers only); -10 is reduced to 350;
\* and the four test cases of the suite hold of the final definition.
C2_Formula ==
    LET Norm(x) == IF x >= 0 THEN x % 360 ELSE (360 - ((0 - x) % 360)) % 360
    IN /\ \A c \in calls :
            LET na == Norm(c.a)
                nb == Norm(c.b)
                d  == IF nb >= na THEN nb - na ELSE na - nb
            IN /\ na \in 0 .. 359 /\ nb \in 0 .. 359
               /\ c.result = IF 360 - d < d THEN 360 - d ELSE d
               /\ c.a = 0 - 10 => PyMod(c.a, 360) = 350
       /\ revision = 4 =>
            \A t \in TestAngle4 : angle_distance(t.a, t.b) = t.expected

C2_Witness ==
    \E c \in calls : c.a = 0 - 10 /\ c.b = 355 /\ c.result = 5

\* C3: periodicity: adding any whole number of turns, positive or negative,
\* to the first argument of the final angle_distance leaves the result as it is.
C3_Periodicity ==
    \A c \in calls : \A k \in Turns :
        angle_distance(c.a + 360 * k, c.b) = c.result

C3_Witness ==
    \E c \in calls : c.a = 365 /\ c.b = 10 /\ c.result = 5

\* C4: symmetry: the final angle_distance(a, b) equals angle_distance(b, a).
C4_Symmetry ==
    \A c \in calls : angle_distance(c.b, c.a) = c.result

C4_Witness ==
    \E c \in calls : c.a = 350 /\ c.b = 0 - 20 /\ c.result = 10

\* C5: antipodal case: the final angle_distance(a, a + 180) is 180, also when
\* a is negative and when a + 180 crosses a multiple of 360.
C5_Antipodal ==
    \A c \in calls : c.b = c.a + 180 => c.result = 180

C5_Witness ==
    \E c \in calls : c.a = 185 /\ c.b = 365 /\ c.result = 180

\* C6: zero case: the final angle_distance(a, a) is 0, and the distance is 0
\* exactly when the two arguments differ by a multiple of 360.
C6_Zero ==
    \A c \in calls :
        LET n == IF c.b >= c.a THEN c.b - c.a ELSE c.a - c.b
        IN /\ c.a = c.b => c.result = 0
           /\ c.result = 0 <=> n % 360 = 0

C6_Witness ==
    \E c \in calls : c.a = 0 - 360 /\ c.b = 360 /\ c.result = 0

\* C7: no regression: when a redefinition of angle_distance is run (cells 6,
\* 10 and 14) the new definition satisfies every test case of the TestAngle
\* then defined, and the unittest.main() that follows (cells 7, 11 and 15)
\* runs that whole suite and reports no failure.
C7_NoRegression ==
    /\ cell \in {6, 10, 14} =>
         /\ TestAngle # {}
         /\ \A t \in TestAngle : angle_distance(t.a, t.b) = t.expected
    /\ cell \in {7, 11, 15} =>
         /\ ran = { t.name : t \in TestAngle }
         /\ ran # {}
         /\ failures = {}

C7_Witness ==
    /\ cell = 15
    /\ revision = 4
    /\ Cardinality(ran) = 4
    /\ failures = {}

C9_NeverRemoved ==
    [][TestAngle \subseteq TestAngle']_vars

C9_Witness ==
    /\ cell = 12
    /\ TestAngle = TestAngle4

\* C10: the final angle_distance satisfies the triangle inequality
\* angle_distance(a, p) <= angle_distance(a, b) + angle_distance(b, p) and is
\* unchanged when both arguments are rotated by the same amount.
C10_Metric ==
    \A c \in calls : \A p \in Probes :
        /\ angle_distance(c.a, p) <= c.result + angle_distance(c.b, p)
        /\ angle_distance(c.a + p, c.b + p) = c.result

C10_Witness ==
    \E c \in calls : c.a = 0 - 300 /\ c.b = 300 /\ c.result = 120

TypeOK ==
    /\ cell \in 0 .. NumCells
    /\ revision \in 0 .. 4
    /\ TestAngle \subseteq TestAngle4
    /\ ran \subseteq { t.name : t \in TestAngle4 }
    /\ failures \subseteq ran
    /\ Cardinality(calls) <= 1
====
